---- MODULE Spec2Model ----
(***************************************************************************)
(* A model of the quiz game: the Quiz session object (src/js/quiz.js), the *)
(* Question round object (src/js/question.js) and the orchestration in     *)
(* src/js/index.js, with the browser pieces they lean on (localStorage,    *)
(* document keydown listeners, setInterval/setTimeout, innerHTML parsing,  *)
(* IEEE-754 double arithmetic) modelled by what they do.                   *)
(***************************************************************************)
EXTENDS Integers, Sequences, FiniteSets, TLC

(***************************************************************************)
(* Bounds of the model.                                                    *)
(***************************************************************************)
\* largest numberOfQuestions the player enters in the session machine
MaxCount == 2
\* largest number of questions the upstream returns
MaxLen == 2
\* sessions started in one behaviour
MaxSessions == 1
\* finalizations applied in one behaviour of the leaderboard specification
MaxSaves == 2
\* inline form errors shown at once
MaxFormErrors == 1
\* sessions started after the first ones in the restart specification
MaxRestarts == 1

(***************************************************************************)
(* Program constants.                                                      *)
(***************************************************************************)
\* question.js:32  this.timeRemaining = 15
StartTime == 15
\* quiz.js:113 / quiz.js:118  the leaderboard keeps 10 entries
TopN == 10
\* index.js:31  numQuestions > 50 is rejected
MaxAllowed == 50
\* index.js:43  3000 ms, in periods of the 1000 ms countdown (question.js:180)
FormErrorTicks == 3
\* IEEE-754 binary64: 53 significant bits
MantBits == 53

(***************************************************************************)
(* Generic helpers.                                                        *)
(***************************************************************************)
Max(a, b) == IF a >= b THEN a ELSE b

Min(a, b) == IF a <= b THEN a ELSE b

Range(s) == {s[i] : i \in DOMAIN s}

\* the first n elements of s (Array.prototype.slice(0, n))
Slice(s, n) == SubSeq(s, 1, Min(n, Len(s)))

(***************************************************************************)
(* IEEE-754 double arithmetic, as far as getScorePercentage needs it.      *)
(* A positive double is [hi, mid, lo, e]: its 53-bit significand M, cut    *)
(* into limbs of 17, 18 and 18 bits (M = hi * 2^36 + mid * 2^18 + lo, with *)
(* 2^16 <= hi < 2^17), and the exponent e of its leading bit; it stands    *)
(* for M * 2^(e - 52).                                                     *)
(***************************************************************************)
\* the width of the two lower limbs
LimbBits == (MantBits + 1) \div 3

\* the k with 2^k <= s / n < 2^(k + 1), for integers 0 < s < 128, 0 < n < 128
Exponent(s, n) ==
  CHOOSE k \in -7..6 :
    IF k >= 0 THEN n * 2 ^ k <= s /\ s < n * 2 ^ (k + 1)
    ELSE n <= s * 2 ^ (-k) /\ s * 2 ^ (-k) < 2 * n

\* the next double above x
Successor(x) ==
  IF x.lo + 1 < 2 ^ LimbBits THEN [x EXCEPT !.lo = @ + 1]
  ELSE IF x.mid + 1 < 2 ^ LimbBits THEN [x EXCEPT !.lo = 0, !.mid = @ + 1]
  ELSE IF x.hi + 1 < 2 ^ (LimbBits - 1) THEN [x EXCEPT !.lo = 0, !.mid = 0, !.hi = @ + 1]
  ELSE [hi |-> 2 ^ (LimbBits - 2), mid |-> 0, lo |-> 0, e |-> x.e + 1]

\* round-to-nearest-even: x is the exact value cut off after 53 bits, and
\* what was cut off is rest / unit of the last place
RoundNearestEven(x, rest, unit) ==
  IF 2 * rest > unit \/ (2 * rest = unit /\ x.lo % 2 = 1) THEN Successor(x) ELSE x

\* the double nearest to s / n, for integers 0 < s < 128, 0 < n < 128: long
\* division, a limb at a time
DoubleDiv(s, n) ==
  LET e == Exponent(s, n)
      w == (MantBits - 1 - e) - 2 * LimbBits
      r1 == ((s % n) * 2 ^ w) % n
      r2 == (r1 * 2 ^ LimbBits) % n
      r3 == (r2 * 2 ^ LimbBits) % n
  IN  RoundNearestEven([hi |-> (s \div n) * 2 ^ w + ((s % n) * 2 ^ w) \div n,
                        mid |-> (r1 * 2 ^ LimbBits) \div n,
                        lo |-> (r2 * 2 ^ LimbBits) \div n,
                        e |-> e],
                       r3, n)

\* the double nearest to x * 100: the limbs are multiplied from the lowest
\* up, and the 59 or 60 bits of the product are cut back to 53
DoubleTimes100(x) ==
  LET B == 2 ^ LimbBits
      pl == 100 * x.lo
      pm == 100 * x.mid + pl \div B
      ph == 100 * x.hi + pm \div B
      k == CHOOSE j \in {6, 7} : ph \div 2 ^ j < 2 ^ (LimbBits - 1)
                                 /\ ph \div 2 ^ j >= 2 ^ (LimbBits - 2)
      up == 2 ^ (LimbBits - k)
  IN  RoundNearestEven([hi |-> ph \div 2 ^ k,
                        mid |-> (ph % 2 ^ k) * up + (pm % B) \div 2 ^ k,
                        lo |-> ((pm % B) % 2 ^ k) * up + (pl % B) \div 2 ^ k,
                        e |-> x.e + k],
                       (pl % B) % 2 ^ k, 2 ^ k)

\* the significand of x without its last j bits, for j >= 35
TopBits(x, j) ==
  IF j >= 2 * LimbBits THEN x.hi \div 2 ^ (j - 2 * LimbBits)
  ELSE 2 * x.hi + x.mid \div 2 ^ (LimbBits - 1)

\* Math.round of a positive double below 2^17: floor(x + 0.5), from the
\* bits of x down to the one that counts a half
MathRound(x) == (TopBits(x, (MantBits - 2) - x.e) + 1) \div 2

(***************************************************************************)
(* Text.  A string is a sequence of tokens: a character, or a character    *)
(* reference as the upstream escapes it.                                   *)
(***************************************************************************)
QUOT == "\""

\* DOMParser text content of one token: character references are decoded
DecodeToken(t) ==
  IF t = "&quot;" THEN QUOT
  ELSE IF t = "&amp;" THEN "&"
  ELSE IF t = "&#039;" THEN "'"
  ELSE t

\* Question.decodeHtml
decodeHtml(html) == [i \in DOMAIN html |-> DecodeToken(html[i])]

LowerToken(t) ==
  IF t = "A" THEN "a" ELSE IF t = "B" THEN "b" ELSE IF t = "C" THEN "c" ELSE t

\* String.prototype.toLowerCase
toLowerCase(s) == [i \in DOMAIN s |-> LowerToken(s[i])]

FirstQuote(s) == CHOOSE i \in DOMAIN s : s[i] = QUOT /\ \A j \in 1..(i-1) : s[j] # QUOT

\* What the HTML parser reads back from  data-answer="${answer}"  when the
\* card is assigned to innerHTML: the attribute value ends at the first
\* double quote of the interpolated text.
datasetAnswer(answer) ==
  IF \E i \in DOMAIN answer : answer[i] = QUOT
  THEN SubSeq(answer, 1, FirstQuote(answer) - 1)
  ELSE answer

(***************************************************************************)
(* The questions the upstream can return (raw, entity-escaped records).    *)
(***************************************************************************)
Pool ==
  << [correct_answer |-> <<"A">>, incorrect_answers |-> << <<"b">> >>],
     [correct_answer |-> <<"a", "&quot;">>, incorrect_answers |-> << <<"b">> >>] >>

\* questions of four and of three choices, one with a distractor given twice
WidePool ==
  << [correct_answer |-> <<"A">>, incorrect_answers |-> << <<"b">>, <<"c">>, <<"d">> >>],
     [correct_answer |-> <<"A">>, incorrect_answers |-> << <<"b">>, <<"b">> >>] >>

\* the result lists of a successful fetch: any list of at most MaxLen questions
RECURSIVE ResultLists(_)
ResultLists(n) ==
  IF n = 0 THEN {<<>>}
  ELSE LET shorter == ResultLists(n - 1)
       IN  shorter \cup {Append(l, q) : l \in {x \in shorter : Len(x) = n - 1}, q \in Range(Pool)}

(***************************************************************************)
(* Quiz (src/js/quiz.js).                                                  *)
(***************************************************************************)
\* new Quiz(playerName, category, difficulty, numberOfQuestions)
NewQuiz(playerName, difficulty, numberOfQuestions) ==
  [playerName |-> playerName, difficulty |-> difficulty,
   numberOfQuestions |-> numberOfQuestions,
   score |-> 0, questions |-> <<>>, currentQuestionIndex |-> 0]

\* incrementScore that counts a correct answer twice
incrementScoreTwice(q) == [q EXCEPT !.score = @ + 2]

incrementScore(q) == [q EXCEPT !.score = @ + 1]

\* nextQuestion that passes over a question
nextQuestionSkip(q) == [q EXCEPT !.currentQuestionIndex = @ + 2]

\* nextQuestion that forgets to move on
nextQuestionStuck(q) == q

\* nextQuestion that starts over after the last question
nextQuestionWrap(q) ==
  [q EXCEPT !.currentQuestionIndex =
     IF Len(q.questions) = 0 THEN 0 ELSE (@ + 1) % Len(q.questions)]

\* null is modelled by the record NoQuestion
NoQuestion == [correct_answer |-> <<>>, incorrect_answers |-> <<>>, none |-> TRUE]

getCurrentQuestion(q) ==
  IF q.currentQuestionIndex + 1 \in DOMAIN q.questions
  THEN q.questions[q.currentQuestionIndex + 1]
  ELSE NoQuestion

\* isComplete that is true one question late
isCompleteLate(q) == q.currentQuestionIndex > Len(q.questions)

\* isComplete that is true one question early
isCompleteEarly(q) == q.currentQuestionIndex >= Len(q.questions) - 1

isComplete(q) == q.currentQuestionIndex >= Len(q.questions)

\* the quiz after nextQuestion(); its return value is ~isComplete of that
nextQuestion(q) == [q EXCEPT !.currentQuestionIndex = @ + 1]

\* Math.round((score / numberOfQuestions) * 100) in double arithmetic
RoundedPercentage(score, numberOfQuestions) ==
  IF score = 0 THEN 0
  ELSE MathRound(DoubleTimes100(DoubleDiv(score, numberOfQuestions)))

getScorePercentage(q) == RoundedPercentage(q.score, q.numberOfQuestions)

(***************************************************************************)
(* The leaderboard in localStorage["quizHighScores"].  The stored value is *)
(* absent (getItem gives null), unreadable (getItem throws), text that is   *)
(* not JSON, JSON that is not an array, or an array of entries.             *)
(***************************************************************************)
StoredList(l) == [kind |-> "list", list |-> l]

StoredOther(k) == [kind |-> k, list |-> <<>>]

\* getHighScores that makes a one-element list of a parsed value that is no list
getHighScoresWrapped(st) ==
  IF st.kind = "list" THEN st.list
  ELSE IF st.kind = "nonlist"
       THEN << [name |-> "", score |-> 0, total |-> 0, percentage |-> 0,
                difficulty |-> "", date |-> 0] >>
  ELSE <<>>

getHighScores(st) == IF st.kind = "list" THEN st.list ELSE <<>>

\* an insertion that puts e before the entries of its own percentage
RECURSIVE InsertDescUnstable(_, _)
InsertDescUnstable(s, e) ==
  IF s = <<>> THEN <<e>>
  ELSE IF Head(s).percentage > e.percentage
       THEN <<Head(s)>> \o InsertDescUnstable(Tail(s), e)
  ELSE <<e>> \o s

\* e put into the descending list s behind every entry that does not rank below it
RECURSIVE InsertDesc(_, _)
InsertDesc(s, e) ==
  IF s = <<>> THEN <<e>>
  ELSE IF Head(s).percentage >= e.percentage THEN <<Head(s)>> \o InsertDesc(Tail(s), e)
  ELSE <<e>> \o s

\* scores.sort((a, b) => b.percentage - a.percentage): a stable sort
RECURSIVE SortDesc(_)
SortDesc(s) ==
  IF s = <<>> THEN <<>>
  ELSE InsertDesc(SortDesc(SubSeq(s, 1, Len(s) - 1)), s[Len(s)])

NewScore(q, now) ==
  [name |-> q.playerName, score |-> q.score, total |-> q.numberOfQuestions,
   percentage |-> getScorePercentage(q), difficulty |-> q.difficulty, date |-> now]

\* saveHighScore without its sort
saveHighScoreNoSort(q, st, now) ==
  StoredList(Slice(Append(getHighScores(st), NewScore(q, now)), TopN))

\* the value saveHighScore hands to localStorage.setItem
saveHighScore(q, st, now) ==
  StoredList(Slice(SortDesc(Append(getHighScores(st), NewScore(q, now))), TopN))

\* isHighScore that lets a tie with the lowest entry in
isHighScoreOrEqual(q, st) ==
  LET scores == getHighScores(st)
  IN  IF Len(scores) < TopN THEN TRUE
      ELSE getScorePercentage(q) >= scores[Len(scores)].percentage

isHighScore(q, st) ==
  LET scores == getHighScores(st)
  IN  IF Len(scores) < TopN THEN TRUE
      ELSE getScorePercentage(q) > scores[Len(scores)].percentage

\* endQuiz that saves without asking isHighScore
endQuizAlwaysSaves(q, st, now, writable) ==
  LET percentage == getScorePercentage(q)
      st1 == saveHighScore(q, st, now)
  IN  IF ~writable
      THEN [threw |-> TRUE, storage |-> st, saved |-> TRUE, html |-> <<>>]
      ELSE [threw |-> FALSE, storage |-> st1, saved |-> TRUE,
            html |-> << [score |-> q.score, total |-> q.numberOfQuestions,
                         percentage |-> percentage,
                         newRecord |-> isHighScore(q, st1),
                         leaderboard |-> getHighScores(st1)] >>]

\* endQuiz that reads the leaderboard for display before it saves
endQuizReadFirst(q, st, now, writable) ==
  LET percentage == getScorePercentage(q)
      highScores == getHighScores(st)
      saved == isHighScore(q, st)
      st1 == IF saved THEN saveHighScore(q, st, now) ELSE st
  IN  IF saved /\ ~writable
      THEN [threw |-> TRUE, storage |-> st, saved |-> saved, html |-> <<>>]
      ELSE [threw |-> FALSE, storage |-> st1, saved |-> saved,
            html |-> << [score |-> q.score, total |-> q.numberOfQuestions,
                         percentage |-> percentage,
                         newRecord |-> isHighScore(q, st1),
                         leaderboard |-> highScores] >>]

\* What endQuiz does: [threw, storage, html].  saved is the isHighScore value
\* that decided the save, newRecord the one evaluated again for the badge
\* after the save.  A failing localStorage.setItem (quota, storage disabled)
\* throws out of saveHighScore and so out of endQuiz.
endQuiz(q, st, now, writable) ==
  LET percentage == getScorePercentage(q)
      saved == isHighScore(q, st)
      st1 == IF saved THEN saveHighScore(q, st, now) ELSE st
  IN  IF saved /\ ~writable
      THEN [threw |-> TRUE, storage |-> st, saved |-> saved, html |-> <<>>]
      ELSE [threw |-> FALSE, storage |-> st1, saved |-> saved,
            html |-> << [score |-> q.score, total |-> q.numberOfQuestions,
                         percentage |-> percentage,
                         newRecord |-> isHighScore(q, st1),
                         leaderboard |-> getHighScores(st1)] >>]

(***************************************************************************)
(* State.                                                                  *)
(***************************************************************************)
VARIABLES
  screen,      \* what the page shows: "form", "loading", "question", "results", "error"
  message,     \* the text of the error card, "" when there is none
  formErrors,  \* the inline form-error divs now shown
  currentQuiz, \* index.js currentQuiz: the id of a Quiz object, 0 for null
  fetching,    \* the quiz whose getQuestions is awaited by startQuiz, 0 when none
  quizzes,     \* the Quiz objects some live closure can still reach, by id
  rounds,      \* the Question objects some live closure can still reach, by <<quiz id, index>>
  card,        \* the round whose question card is in the container, <<>> when none
  keydown,     \* the keydown listeners on document, in registration order
  intervals,   \* the active setInterval countdowns
  timeouts,    \* the pending animateQuestion timeouts that call getNextQuestion
  storage,     \* localStorage["quizHighScores"]
  results,     \* what the results card shows, <<>> when there is none
  uncaught,    \* an exception escaped a callback
  clock,       \* the number of Date readings so far
  started,     \* sessions started so far
  outcomes,    \* history: how each round of the current session resolved
  lastEnd,     \* history: the input and return value of the last endQuiz call
  lastFetch,   \* history: how getQuestions of the session last settled, "" before it did
  ends         \* history: the endQuiz calls of the current session

vars == <<screen, message, formErrors, currentQuiz, fetching, quizzes, rounds, card, keydown,
          intervals, timeouts, storage, results, uncaught, clock, started, outcomes,
          lastEnd, lastFetch, ends>>

\* the state as one record, for the handlers that call one another
World ==
  [screen |-> screen, message |-> message, formErrors |-> formErrors,
   currentQuiz |-> currentQuiz, fetching |-> fetching,
   quizzes |-> quizzes, rounds |-> rounds,
   card |-> card, keydown |-> keydown, intervals |-> intervals,
   timeouts |-> timeouts, storage |-> storage, results |-> results,
   uncaught |-> uncaught, clock |-> clock, started |-> started,
   outcomes |-> outcomes, lastEnd |-> lastEnd, lastFetch |-> lastFetch, ends |-> ends]

NoCard == <<>>

EmptyMap == [x \in {} |-> x]

(***************************************************************************)
(* Question (src/js/question.js).                                          *)
(***************************************************************************)
\* an exchange that only writes position i
SwapOverwrite(answers, i, j) ==
  [k \in DOMAIN answers |-> IF k = i + 1 THEN answers[j + 1] ELSE answers[k]]

\* answers with positions i and j (counted from 0) exchanged
Swap(answers, i, j) ==
  [k \in DOMAIN answers |->
     IF k = i + 1 THEN answers[j + 1] ELSE IF k = j + 1 THEN answers[i + 1] ELSE answers[k]]

\* the loop of shuffleAnswers from index i down to 1; draw[i] is
\* Math.floor(Math.random() * (i + 1))
RECURSIVE ShuffleFrom(_, _, _)
ShuffleFrom(answers, i, draw) ==
  IF i <= 0 THEN answers
  ELSE ShuffleFrom(Swap(answers, i, draw[i]), i - 1, draw)

shuffleAnswers(wrongAnswers, correctAnswer, draw) ==
  LET answers == Append(wrongAnswers, correctAnswer)
  IN  ShuffleFrom(answers, Len(answers) - 1, draw)

\* the values Math.random can give the loop over n answers
Draws(n) == {d \in [1..(n - 1) -> 0..(n - 1)] : \A i \in 1..(n - 1) : d[i] <= i}

\* the rendered buttons of displayQuestion, as querySelectorAll gives them
RenderButtons(allAnswers) ==
  [i \in DOMAIN allAnswers |-> [answer |-> datasetAnswer(allAnswers[i]), classes |-> {}]]

\* A round whose card has left the document: its buttons are no longer in
\* the page and nothing reads its countdown value again.
Detached(r) ==
  [r EXCEPT !.answerButtons = [i \in DOMAIN @ |-> [@[i] EXCEPT !.classes = {}]],
            !.timeUp = FALSE, !.timeRemaining = 0, !.scorePanel = 0]

\* container.innerHTML = ...: the card that was shown leaves the document
ReplaceCard(w, rid) ==
  LET old == w.card
      rs == IF old # NoCard /\ old # rid /\ old \in DOMAIN w.rounds
            THEN [w.rounds EXCEPT ![old] = Detached(@)]
            ELSE w.rounds
  IN  [w EXCEPT !.rounds = rs, !.card = rid]

\* clearInterval(this.timerInterval); this.timerInterval = null
stopTimer(w, rid) ==
  LET r == w.rounds[rid]
  IN  [w EXCEPT !.intervals = {iv \in @ : ~(iv.rid = rid /\ iv.id = r.timerInterval)},
                !.rounds[rid].timerInterval = 0]

\* document.removeEventListener("keydown", this.keyHandler)
removeEventListeners(w, rid) ==
  LET r == w.rounds[rid]
      keep == {i \in DOMAIN w.keydown :
                 ~(w.keydown[i].rid = rid /\ w.keydown[i].id = r.keyHandler)}
      pos[i \in 0..Len(w.keydown)] ==
        IF i = 0 THEN <<>>
        ELSE IF i \in keep THEN Append(pos[i-1], w.keydown[i]) ELSE pos[i-1]
  IN  [w EXCEPT !.keydown = pos[Len(w.keydown)]]

highlightCorrectAnswer(w, rid) ==
  LET r == w.rounds[rid]
  IN  [w EXCEPT !.rounds[rid].answerButtons =
         [i \in DOMAIN @ |->
            IF @[i].answer = r.correctAnswer
            THEN [@[i] EXCEPT !.classes = @ \cup {"correct-reveal"}]
            ELSE @[i]]]

\* animateQuestion whose two timeouts both call getNextQuestion
animateQuestionTwice(w, rid) == [w EXCEPT !.timeouts = Append(Append(@, rid), rid)]

\* the second setTimeout of animateQuestion; the first only styles the card
animateQuestion(w, rid) == [w EXCEPT !.timeouts = Append(@, rid)]

Resolve(w, rid, outcome) ==
  IF w.rounds[rid].sid = w.currentQuiz
  THEN [w EXCEPT !.outcomes = Append(@, [index |-> w.rounds[rid].index, outcome |-> outcome])]
  ELSE w

IncrementScoreOf(w, sid) ==
  IF sid \in DOMAIN w.quizzes
  THEN [w EXCEPT !.quizzes[sid] = incrementScore(@)]
  ELSE w

\* checkAnswer past its guard that leaves the countdown running
AcceptAnswerNoStop(w, rid, b) ==
  LET r == w.rounds[rid]
      w1 == removeEventListeners([w EXCEPT !.rounds[rid].answered = TRUE], rid)
      selected == toLowerCase(r.answerButtons[b].answer)
      correct == toLowerCase(r.correctAnswer)
      w2 == IF selected = correct
            THEN Resolve(IncrementScoreOf(
                   [w1 EXCEPT !.rounds[rid].answerButtons[b].classes = @ \cup {"correct"}],
                   r.sid), rid, "Correct")
            ELSE Resolve(highlightCorrectAnswer(
                   [w1 EXCEPT !.rounds[rid].answerButtons[b].classes = @ \cup {"wrong"}],
                   rid), rid, "Wrong")
      w3 == [w2 EXCEPT !.rounds[rid].answerButtons =
               [i \in DOMAIN @ |-> [@[i] EXCEPT !.classes = @ \cup {"disabled"}]]]
  IN  animateQuestion(w3, rid)

\* checkAnswer(choiceElement) past its answered guard, the element being
\* answerButtons[b] of the round
AcceptAnswer(w, rid, b) ==
  LET r == w.rounds[rid]
      w1 == removeEventListeners(
              stopTimer([w EXCEPT !.rounds[rid].answered = TRUE], rid), rid)
      selected == toLowerCase(r.answerButtons[b].answer)
      correct == toLowerCase(r.correctAnswer)
      w2 == IF selected = correct
            THEN Resolve(IncrementScoreOf(
                   [w1 EXCEPT !.rounds[rid].answerButtons[b].classes = @ \cup {"correct"}],
                   r.sid), rid, "Correct")
            ELSE Resolve(highlightCorrectAnswer(
                   [w1 EXCEPT !.rounds[rid].answerButtons[b].classes = @ \cup {"wrong"}],
                   rid), rid, "Wrong")
      w3 == [w2 EXCEPT !.rounds[rid].answerButtons =
               [i \in DOMAIN @ |-> [@[i] EXCEPT !.classes = @ \cup {"disabled"}]]]
  IN  animateQuestion(w3, rid)

\* checkAnswer whose guard holds only for the rounds of the current session
checkAnswerGuardsCurrent(w, rid, b) ==
  IF w.rounds[rid].answered /\ w.rounds[rid].sid = w.currentQuiz
  THEN w
  ELSE AcceptAnswer(w, rid, b)

\* checkAnswer without its answered guard
checkAnswerUnguarded(w, rid, b) == AcceptAnswer(w, rid, b)

checkAnswer(w, rid, b) ==
  IF w.rounds[rid].answered THEN w ELSE AcceptAnswer(w, rid, b)

\* handleTimeUp that does not set the answered flag
handleTimeUpNoFlag(w, rid) ==
  LET r == w.rounds[rid]
  IN  IF r.answered THEN w
      ELSE
        LET w1 == highlightCorrectAnswer(removeEventListeners(w, rid), rid)
            w2 == Resolve(w1, rid, "TimedOut")
        IN  IF w2.card = NoCard THEN [w2 EXCEPT !.uncaught = TRUE]
            ELSE animateQuestion([w2 EXCEPT !.rounds[w2.card].timeUp = TRUE], rid)

\* handleTimeUp; the message goes into the question card now in the document,
\* and with no such card insertAdjacentHTML is called on null and throws
handleTimeUp(w, rid) ==
  LET r == w.rounds[rid]
  IN  IF r.answered THEN w
      ELSE
        LET w1 == highlightCorrectAnswer(
                    removeEventListeners([w EXCEPT !.rounds[rid].answered = TRUE], rid), rid)
            w2 == Resolve(w1, rid, "TimedOut")
        IN  IF w2.card = NoCard THEN [w2 EXCEPT !.uncaught = TRUE]
            ELSE animateQuestion([w2 EXCEPT !.rounds[w2.card].timeUp = TRUE], rid)

\* a countdown callback that gives up one second late
timerCallbackLate(w, rid) ==
  LET w1 == [w EXCEPT !.rounds[rid].timeRemaining = @ - 1]
  IN  IF w1.rounds[rid].timeRemaining < 0
      THEN handleTimeUp(stopTimer(w1, rid), rid)
      ELSE w1

\* one run of the setInterval callback of startTimer for round rid
timerCallback(w, rid) ==
  LET w1 == [w EXCEPT !.rounds[rid].timeRemaining = @ - 1]
  IN  IF w1.rounds[rid].timeRemaining <= 0
      THEN handleTimeUp(stopTimer(w1, rid), rid)
      ELSE w1

\* the keys the handler acts on
Digits == <<"1", "2", "3", "4">>

\* keyHandler that takes the digit itself as the index of the button
keyHandlerOffByOne(w, rid, key) ==
  IF key \in Range(Digits)
  THEN LET index == CHOOSE n \in DOMAIN Digits : Digits[n] = key
       IN  IF index + 1 \in DOMAIN w.rounds[rid].answerButtons
           THEN checkAnswer(w, rid, index + 1)
           ELSE w
  ELSE w

\* the keyHandler closure of round rid, given e.key
keyHandler(w, rid, key) ==
  IF key \in Range(Digits)
  THEN LET index == (CHOOSE n \in DOMAIN Digits : Digits[n] = key) - 1
       IN  IF index + 1 \in DOMAIN w.rounds[rid].answerButtons
           THEN checkAnswer(w, rid, index + 1)
           ELSE w
  ELSE w

\* a keydown event on document: the listeners attached when it is dispatched
\* run in order, except those removed meanwhile
RECURSIVE Dispatch(_, _, _)
Dispatch(w, ls, key) ==
  IF ls = <<>> THEN w
  ELSE IF Head(ls) \in Range(w.keydown)
       THEN Dispatch(keyHandler(w, Head(ls).rid, key), Tail(ls), key)
       ELSE Dispatch(w, Tail(ls), key)

addEventListeners(w, rid) ==
  LET r == w.rounds[rid]
  IN  [w EXCEPT !.rounds[rid].answerButtons = RenderButtons(r.allAnswers),
                !.rounds[rid].keyHandler = r.displays,
                !.keydown = Append(@, [rid |-> rid, id |-> r.displays])]

\* startTimer that does not clear the countdown already running
startTimerNoClear(w, rid) ==
  LET k == w.rounds[rid].displays
  IN  [w EXCEPT !.intervals = @ \cup {[rid |-> rid, id |-> k]},
                !.rounds[rid].timerInterval = k]

startTimer(w, rid) ==
  LET w1 == IF w.rounds[rid].timerInterval # 0 THEN stopTimer(w, rid) ELSE w
      k == w1.rounds[rid].displays
  IN  [w1 EXCEPT !.intervals = @ \cup {[rid |-> rid, id |-> k]},
                 !.rounds[rid].timerInterval = k]

\* displayQuestion: the card is rendered into the container, then
\* addEventListeners and startTimer run
displayQuestion(w, rid) ==
  LET w1 == ReplaceCard(w, rid)
      w2 == [w1 EXCEPT !.screen = "question", !.message = "", !.results = <<>>,
                       !.rounds[rid].displays = @ + 1,
                       !.rounds[rid].timeUp = FALSE,
                       !.rounds[rid].scorePanel =
                          IF rid[1] \in DOMAIN w1.quizzes THEN w1.quizzes[rid[1]].score ELSE 0]
  IN  startTimer(addEventListeners(w2, rid), rid)

\* new Question(quiz, container, onQuizEnd) for the quiz with id sid
NewQuestion(w, sid, draw) ==
  LET q == w.quizzes[sid]
      questionData == getCurrentQuestion(q)
      correctAnswer == decodeHtml(questionData.correct_answer)
      wrongAnswers == [i \in DOMAIN questionData.incorrect_answers |->
                         decodeHtml(questionData.incorrect_answers[i])]
      rid == <<sid, q.currentQuestionIndex>>
      r == [sid |-> sid, index |-> q.currentQuestionIndex,
            correctAnswer |-> correctAnswer,
            allAnswers |-> shuffleAnswers(wrongAnswers, correctAnswer, draw),
            answered |-> FALSE, timerInterval |-> 0, timeRemaining |-> StartTime,
            keyHandler |-> 0, displays |-> 0, answerButtons |-> <<>>,
            timeUp |-> FALSE, scorePanel |-> 0]
  IN  IF questionData = NoQuestion THEN [w EXCEPT !.uncaught = TRUE]
      ELSE displayQuestion([w EXCEPT !.rounds = (rid :> r) @@ @], rid)

\* the call this.quiz.endQuiz() for quiz q: saveHighScore reads the clock,
\* and an exception out of endQuiz escapes the timeout callback
CallEndQuiz(w, q, writable) ==
  LET e == endQuiz(q, w.storage, w.clock, writable)
  IN  [w EXCEPT !.storage = e.storage,
                !.clock = IF e.saved THEN @ + 1 ELSE @,
                !.uncaught = @ \/ e.threw,
                !.results = IF e.threw THEN @ ELSE e.html,
                !.lastEnd = << [before |-> w.storage, score |-> q.score,
                                total |-> q.numberOfQuestions, now |-> w.clock,
                                saved |-> e.saved, threw |-> e.threw] >>]

\* showResults: the results card replaces the question card unless endQuiz threw
showResults(w, rid, writable) ==
  LET w0 == IF w.rounds[rid].sid = w.currentQuiz THEN [w EXCEPT !.ends = @ + 1] ELSE w
      w1 == CallEndQuiz(w0, w.quizzes[w.rounds[rid].sid], writable)
  IN  IF w1.lastEnd[1].threw THEN w1
      ELSE [ReplaceCard(w1, NoCard) EXCEPT !.screen = "results"]

\* getNextQuestion of round rid
getNextQuestion(w, rid, draw, writable) ==
  LET sid == w.rounds[rid].sid
      w1 == [w EXCEPT !.quizzes[sid] = nextQuestion(@)]
      hasNext == ~isComplete(w1.quizzes[sid])
  IN  IF hasNext THEN NewQuestion(w1, sid, draw) ELSE showResults(w1, rid, writable)

(***************************************************************************)
(* index.js.                                                               *)
(***************************************************************************)
\* the result of parseInt: NaN, or an integer
NaN == [nan |-> TRUE, n |-> 0]

Number(n) == [nan |-> FALSE, n |-> n]

\* validateForm without its upper limit
validateFormNoUpper(numQuestions) ==
  IF numQuestions.nan \/ numQuestions.n = 0 \/ numQuestions.n < 1 THEN FALSE
  ELSE TRUE

\* validateForm on parseInt(questionsNumber.value): TRUE when isValid
validateForm(numQuestions) ==
  IF numQuestions.nan \/ numQuestions.n = 0 \/ numQuestions.n < 1 THEN FALSE
  ELSE IF numQuestions.n > MaxAllowed THEN FALSE
  ELSE TRUE

showError(w, text) ==
  [ReplaceCard(w, NoCard) EXCEPT !.screen = "error", !.message = text, !.results = <<>>]

\* resetToStart that leaves currentQuiz as it is
resetToStartKeepsQuiz(w) ==
  [ReplaceCard(w, NoCard) EXCEPT !.screen = "form", !.message = "", !.results = <<>>,
                                 !.lastEnd = <<>>, !.lastFetch = "", !.ends = 0]

resetToStart(w) ==
  [ReplaceCard(w, NoCard) EXCEPT !.screen = "form", !.message = "", !.results = <<>>,
                                 !.currentQuiz = 0, !.lastEnd = <<>>,
                                 !.lastFetch = "", !.ends = 0]

\* startQuiz after the await: what is left of the handler once getQuestions
\* of quiz sid has settled with outcome
startQuizResume(w, sid, outcome, draw) ==
  IF outcome.kind # "ok"
  THEN showError(w, "Failed to load questions. Try again.")
  ELSE LET w1 == [w EXCEPT !.quizzes[sid].questions = outcome.results]
       IN  IF w1.currentQuiz = 0 \/ w1.currentQuiz \notin DOMAIN w1.quizzes
           THEN showError(w1, "Failed to load questions. Try again.")
           ELSE IF Len(w1.quizzes[w1.currentQuiz].questions) = 0
           THEN showError(w1, "No questions found. Try different options.")
           ELSE LET cur == w1.currentQuiz
                    rid == <<cur, w1.quizzes[cur].currentQuestionIndex>>
                IN  IF getCurrentQuestion(w1.quizzes[cur]) = NoQuestion
                    THEN showError(w1, "Failed to load questions. Try again.")
                    ELSE displayQuestion(NewQuestion(w1, cur, draw), rid)

(***************************************************************************)
(* What the collector keeps: the objects a pending callback or an attached *)
(* listener can still read or write.                                       *)
(***************************************************************************)
Referenced(w) ==
  ({w.card} \cup {w.keydown[i].rid : i \in DOMAIN w.keydown}
            \cup {iv.rid : iv \in w.intervals} \cup Range(w.timeouts))
    \cap DOMAIN w.rounds

\* a round that can still touch its quiz: it is on screen, has a pending
\* callback, or has a listener and an open answered guard
Active(w, rid) ==
  \/ rid = w.card
  \/ rid \in Range(w.timeouts)
  \/ \E iv \in w.intervals : iv.rid = rid
  \/ ~w.rounds[rid].answered

Collect(w) ==
  LET keepR == Referenced(w)
      keepQ == {sid \in DOMAIN w.quizzes :
                  \/ sid = w.currentQuiz
                  \/ sid = w.fetching
                  \/ \E rid \in keepR : w.rounds[rid].sid = sid /\ Active(w, rid)}
  IN  [w EXCEPT !.rounds = [rid \in keepR |-> w.rounds[rid]],
                !.quizzes = [sid \in keepQ |-> w.quizzes[sid]]]

(***************************************************************************)
(* The environment's choices.                                              *)
(***************************************************************************)
\* the leaderboard entry an earlier session of two questions left: 0/2 is
\* stored as 0 percent, 1/2 as 50, 2/2 as 100
PastEntry(score, date) ==
  [name |-> "Player", score |-> score, total |-> 2, percentage |-> 50 * score,
   difficulty |-> "", date |-> date]

\* a leaderboard left by earlier sessions, given their scores in stored
\* order; the dates lie before this page's first
PastBoard(scores) ==
  StoredList([i \in DOMAIN scores |-> PastEntry(scores[i], i - Len(scores))])

\* a full leaderboard: five of 2/2 and five of 1/2
FullBoard == PastBoard(<<2, 2, 2, 2, 2, 1, 1, 1, 1, 1>>)

\* the stored values the leaderboard specification starts from
BoardInputs ==
  {StoredOther("absent"), StoredOther("unreadable"), StoredOther("invalid"),
   StoredOther("nonlist"),
   PastBoard(<<>>), PastBoard(<<2, 1, 0>>),
   PastBoard(<<2, 2, 2, 1, 1, 1, 0, 0, 0>>),
   FullBoard,
   PastBoard(<<2, 2, 2, 2, 2, 2, 2, 2, 2, 2>>),
   PastBoard(<<2, 2, 2, 1, 1, 1, 1, 0, 0, 0>>)}

\* what parseInt(questionsNumber.value) can be
FormValues == {NaN} \cup {Number(n) : n \in {-1, 0, MaxAllowed + 1} \cup (1..MaxCount)}

FetchOutcomes ==
  {[kind |-> k, results |-> <<>>] : k \in {"network", "http", "nodata"}}
    \cup {[kind |-> "ok", results |-> l] : l \in ResultLists(MaxLen)}

\* the draws Math.random can give shuffleAnswers for question data
DrawsFor(questionData) ==
  IF questionData = NoQuestion THEN {<<>>}
  ELSE Draws(Len(questionData.incorrect_answers) + 1)

(***************************************************************************)
(* The session machine.                                                    *)
(***************************************************************************)
\* the next state is what the handler leaves, w0, less what is collected
Set(w0) ==
  \E w \in {Collect(w0)} :
      /\ screen' = w.screen
      /\ message' = w.message
      /\ formErrors' = w.formErrors
      /\ currentQuiz' = w.currentQuiz
      /\ fetching' = w.fetching
      /\ quizzes' = w.quizzes
      /\ rounds' = w.rounds
      /\ card' = w.card
      /\ keydown' = w.keydown
      /\ intervals' = w.intervals
      /\ timeouts' = w.timeouts
      /\ storage' = w.storage
      /\ results' = w.results
      /\ uncaught' = w.uncaught
      /\ clock' = w.clock
      /\ started' = w.started
      /\ outcomes' = w.outcomes
      /\ lastEnd' = w.lastEnd
      /\ lastFetch' = w.lastFetch
      /\ ends' = w.ends

InitPage ==
  /\ screen = "form"
  /\ message = ""
  /\ formErrors = 0
  /\ currentQuiz = 0
  /\ fetching = 0
  /\ quizzes = EmptyMap
  /\ rounds = EmptyMap
  /\ card = NoCard
  /\ keydown = <<>>
  /\ intervals = {}
  /\ timeouts = <<>>
  /\ results = <<>>
  /\ uncaught = FALSE
  /\ clock = 1
  /\ started = 0
  /\ outcomes = <<>>
  /\ lastEnd = <<>>
  /\ lastFetch = ""
  /\ ends = 0

Init ==
  /\ InitPage
  /\ storage \in {StoredOther("absent"), FullBoard}

\* startQuiz with a form value validateForm rejects: showFormError
StartQuizInvalid ==
  \E v \in FormValues :
    /\ screen = "form"
    /\ ~validateForm(v)
    /\ formErrors < MaxFormErrors
    /\ Set([World EXCEPT !.formErrors = @ + 1])

\* the setTimeout of showFormError removes the error div
DismissFormError ==
  /\ formErrors > 0
  /\ Set([World EXCEPT !.formErrors = @ - 1])

\* startQuiz up to its await
StartQuiz ==
  \E v \in FormValues :
    /\ screen = "form"
    /\ validateForm(v)
    /\ started < MaxSessions
    /\ LET sid == started + 1
       IN  Set([ReplaceCard(World, NoCard) EXCEPT
                  !.currentQuiz = sid,
                  !.quizzes = (sid :> NewQuiz("Player", "", v.n)) @@ @,
                  !.screen = "loading",
                  !.fetching = sid,
                  !.started = sid,
                  !.outcomes = <<>>,
                  !.lastFetch = "",
                  !.ends = 0])

\* startQuiz up to its await, after a restart
StartQuizAgain ==
  \E v \in FormValues :
    /\ screen = "form"
    /\ validateForm(v)
    /\ started >= MaxSessions
    /\ started < MaxSessions + MaxRestarts
    /\ LET sid == started + 1
       IN  Set([ReplaceCard(World, NoCard) EXCEPT
                  !.currentQuiz = sid,
                  !.quizzes = (sid :> NewQuiz("Player", "", v.n)) @@ @,
                  !.screen = "loading",
                  !.fetching = sid,
                  !.started = sid,
                  !.outcomes = <<>>,
                  !.lastFetch = "",
                  !.ends = 0])

\* getQuestions settles with one question or fails, and startQuiz goes on
FetchSettleShort ==
  \E outcome \in {[kind |-> "http", results |-> <<>>]}
                   \cup {[kind |-> "ok", results |-> <<question>>] : question \in Range(Pool)} :
    /\ fetching # 0
    /\ \E draw \in DrawsFor(IF outcome.results = <<>> THEN NoQuestion ELSE outcome.results[1]) :
         Set(startQuizResume([World EXCEPT !.fetching = 0, !.lastFetch = outcome.kind],
                             fetching, outcome, draw))

\* getQuestions settles and startQuiz goes on
FetchSettle ==
  \E outcome \in FetchOutcomes :
    /\ fetching # 0
    /\ \E draw \in DrawsFor(IF outcome.results = <<>> THEN NoQuestion ELSE outcome.results[1]) :
         Set(startQuizResume([World EXCEPT !.fetching = 0, !.lastFetch = outcome.kind],
                             fetching, outcome, draw))

\* getQuestions resolves with one question of three or four choices
FetchSettleWide ==
  \E question \in Range(WidePool) :
    /\ fetching # 0
    /\ \E draw \in DrawsFor(question) :
         Set(startQuizResume([World EXCEPT !.fetching = 0, !.lastFetch = "ok"],
                             fetching, [kind |-> "ok", results |-> <<question>>], draw))

\* a click on button b of the card on screen
Click ==
  \E b \in 1..4 :
    /\ card # NoCard
    /\ b \in DOMAIN rounds[card].answerButtons
    /\ Set(checkAnswer(World, card, b))

\* a keydown event reaches document
KeyDown ==
  \E key \in Range(Digits) \cup {"x"} :
    /\ keydown # <<>>
    /\ Set(Dispatch(World, keydown, key))

\* a countdown fires.  A form error is removed FormErrorTicks seconds after
\* it was shown, which was before the round began: the round's tick number
\* FormErrorTicks comes later than that.
Tick ==
  \E iv \in intervals :
    /\ formErrors > 0 => rounds[iv.rid].timeRemaining > StartTime - (FormErrorTicks - 1)
    /\ Set(timerCallback(World, iv.rid))

\* the oldest animateQuestion timeout fires
TimeoutFire ==
  /\ timeouts # <<>>
  /\ LET rid == Head(timeouts)
         w == [World EXCEPT !.timeouts = Tail(@)]
         q == nextQuestion(quizzes[rounds[rid].sid])
     IN  \E draw \in DrawsFor(getCurrentQuestion(q)), writable \in BOOLEAN :
           Set(getNextQuestion(w, rid, draw, writable))

\* the Play Again button of the results card
Restart ==
  /\ screen = "results"
  /\ Set(resetToStart(World))

\* the Try Again button of the error card
Retry ==
  /\ screen = "error"
  /\ Set(resetToStart(World))

Next ==
  \/ StartQuizInvalid
  \/ DismissFormError
  \/ StartQuiz
  \/ FetchSettle
  \/ Click
  \/ KeyDown
  \/ Tick
  \/ TimeoutFire
  \/ Restart
  \/ Retry

Spec == Init /\ [][Next]_vars

(***************************************************************************)
(* The session machine with the timers of the browser delivered: a         *)
(* countdown that is running fires again, and a timeout that is pending    *)
(* fires.  TimeoutFire is enabled exactly when a timeout is pending, and   *)
(* it always takes that timeout off the queue, so weak fairness of it is   *)
(* written with that condition in place of ENABLED <<TimeoutFire>>_vars.   *)
(***************************************************************************)
Fairness ==
  /\ WF_vars(Tick)
  /\ WF_vars(DismissFormError)
  /\ ([]<>(timeouts = <<>>) \/ []<><<TimeoutFire>>_vars)

SpecLive == Init /\ [][Next]_vars /\ Fairness

(***************************************************************************)
(* The session machine over questions of three and four choices: a session *)
(* of one such question, from the form to the results card.                *)
(***************************************************************************)
NextChoices ==
  \/ StartQuiz
  \/ FetchSettleWide
  \/ Click
  \/ KeyDown
  \/ Tick
  \/ TimeoutFire
  \/ Restart

SpecChoices == Init /\ [][NextChoices]_vars

(***************************************************************************)
(* The session machine over sessions of one question, with restarts: the   *)
(* form is used again after Play Again or Try Again.                       *)
(***************************************************************************)
NextRestart ==
  \/ StartQuiz
  \/ StartQuizAgain
  \/ FetchSettleShort
  \/ Click
  \/ KeyDown
  \/ Tick
  \/ TimeoutFire
  \/ Restart
  \/ Retry

SpecRestart == Init /\ [][NextRestart]_vars

(***************************************************************************)
(* endQuiz as a function of the quiz and the stored leaderboard: the       *)
(* finalizations of sessions that ended with the given score.              *)
(***************************************************************************)
FinishedQuiz(score, total) ==
  [NewQuiz("Player", "", total) EXCEPT !.score = score]

SetEnd(w) ==
  /\ storage' = w.storage
  /\ clock' = w.clock
  /\ uncaught' = w.uncaught
  /\ results' = w.results
  /\ lastEnd' = w.lastEnd
  /\ UNCHANGED <<screen, message, formErrors, currentQuiz, fetching, quizzes, rounds,
                 card, keydown, intervals, timeouts, started, outcomes, lastFetch, ends>>

InitBoard ==
  /\ InitPage
  /\ storage \in BoardInputs

\* one more session ends, with any score the session machine can give it
BoardStep ==
  \E total \in 1..MaxCount, score \in 0..MaxLen, writable \in BOOLEAN :
    /\ clock <= MaxSaves
    /\ SetEnd(CallEndQuiz(World, FinishedQuiz(score, total), writable))

SpecBoard == InitBoard /\ [][BoardStep]_vars

InitScore ==
  /\ InitPage
  /\ storage = StoredOther("absent")

\* a session of any size validateForm admits ends with any score up to its size
ScoreStep ==
  \E total \in 1..MaxAllowed, score \in 0..MaxAllowed :
    /\ score <= total
    /\ lastEnd = <<>>
    /\ SetEnd(CallEndQuiz(World, FinishedQuiz(score, total), TRUE))

SpecScore == InitScore /\ [][ScoreStep]_vars

(***************************************************************************)
(* Properties.                                                             *)
(***************************************************************************)
\* how often round index of the current session was resolved
Resolutions(index) == Cardinality({k \in DOMAIN outcomes : outcomes[k].index = index})

\* the outcomes round index of the current session resolved to
OutcomesOf(index) == {outcomes[k].outcome : k \in {j \in DOMAIN outcomes : outcomes[j].index = index}}

\* the score gained since the card on screen was rendered
Gain == quizzes[card[1]].score - rounds[card].scorePanel

\* the buttons of the card on screen that a selection marked
Selected == {b \in DOMAIN rounds[card].answerButtons :
               rounds[card].answerButtons[b].classes \cap {"correct", "wrong"} # {}}

\* C1: whatever clicks, key presses and countdown ticks reach a round, and in
\* whatever order, the round is resolved once if it is answered and never if
\* it is not, and the score grows by at most 1 while its card is shown.
C1_MutualExclusion ==
  /\ \A rid \in DOMAIN rounds :
       (currentQuiz # 0 /\ rounds[rid].sid = currentQuiz) =>
         Resolutions(rounds[rid].index) = IF rounds[rid].answered THEN 1 ELSE 0
  /\ card # NoCard => Gain \in {0, 1}

\* a round answered correctly after some ticks: one resolution, one point
C1_Witness ==
  /\ card # NoCard
  /\ rounds[card].answered
  /\ rounds[card].timeRemaining < StartTime
  /\ Resolutions(rounds[card].index) = 1
  /\ Gain = 1

\* C2: a selected choice that is the correct answer, compared without case,
\* resolves the round as Correct and adds 1 to the score; any other selected
\* choice resolves it as Wrong and leaves the score.
C2_SelectionOutcome ==
  card # NoCard =>
    \A b \in Selected :
      LET r == rounds[card]
      IN  IF toLowerCase(r.allAnswers[b]) = toLowerCase(r.correctAnswer)
          THEN /\ "correct" \in r.answerButtons[b].classes
               /\ OutcomesOf(r.index) = {"Correct"}
               /\ Gain = 1
          ELSE /\ "wrong" \in r.answerButtons[b].classes
               /\ OutcomesOf(r.index) = {"Wrong"}
               /\ Gain = 0

\* the choices of the card on screen that are the correct answer and are
\* flagged for reveal
Revealed == {b \in DOMAIN rounds[card].answerButtons :
               /\ rounds[card].allAnswers[b] = rounds[card].correctAnswer
               /\ "correct-reveal" \in rounds[card].answerButtons[b].classes}

\* what C3 says of a timed-out round apart from the reveal
TimedOutBasics ==
  /\ rounds[card].answered
  /\ OutcomesOf(rounds[card].index) = {"TimedOut"}
  /\ rounds[card].timeUp
  /\ Gain = 0
  /\ ~uncaught => card \in Range(timeouts)

\* C3: a round whose countdown reached 0 unanswered is resolved as TimedOut:
\* answered, score unchanged, the correct choice flagged for reveal, and the
\* transition to the next round pending.
C3_TimedOut ==
  (card # NoCard /\ rounds[card].timeRemaining = 0) =>
    (TimedOutBasics /\ Revealed # {})

\* C4: in every step the index and the score of a session do not decrease.
C4_Monotone ==
  [][\A sid \in DOMAIN quizzes \cap DOMAIN quizzes' :
       /\ quizzes'[sid].currentQuestionIndex >= quizzes[sid].currentQuestionIndex
       /\ quizzes'[sid].score >= quizzes[sid].score]_vars

\* a session that has advanced and scored
C4_Witness ==
  \E sid \in DOMAIN quizzes :
    quizzes[sid].currentQuestionIndex >= 1 /\ quizzes[sid].score >= 1

\* no round of session sid is resolved and still waiting to advance
Advanced(sid) == \A i \in DOMAIN timeouts : rounds[timeouts[i]].sid # sid

\* C5: once the last resolved round has advanced the session, the score is
\* at most the index.
C5_ScoreAtMostIndex ==
  \A sid \in DOMAIN quizzes :
    Advanced(sid) => quizzes[sid].score <= quizzes[sid].currentQuestionIndex

\* a finalized session in which every round was answered correctly
C5_Witness ==
  /\ results # <<>>
  /\ currentQuiz # 0
  /\ quizzes[currentQuiz].currentQuestionIndex = MaxLen
  /\ quizzes[currentQuiz].score = quizzes[currentQuiz].currentQuestionIndex

\* C6: the index of a session is between 0 and the number of its questions.
C6_IndexInRange ==
  \A sid \in DOMAIN quizzes :
    /\ 0 <= quizzes[sid].currentQuestionIndex
    /\ quizzes[sid].currentQuestionIndex <= Len(quizzes[sid].questions)

\* a session that advanced past its last question
C6_Witness ==
  \E sid \in DOMAIN quizzes :
    /\ Len(quizzes[sid].questions) = MaxLen
    /\ quizzes[sid].currentQuestionIndex = Len(quizzes[sid].questions)

\* x / y rounded to the nearest integer, halves up
RoundDiv(x, y) == (2 * x + y) \div (2 * y)

\* C7: the results card of a finalized session shows as score the number of
\* its rounds that resolved Correct, and as percentage score / total * 100
\* rounded.
C7_ScoreAndPercentage ==
  results # <<>> =>
    /\ currentQuiz # 0 =>
         results[1].score = Cardinality({k \in DOMAIN outcomes : outcomes[k].outcome = "Correct"})
    /\ results[1].percentage = RoundDiv(100 * results[1].score, results[1].total)

\* C8: the stored leaderboard has at most 10 entries, in descending order of
\* percentage.
C8_BoardWellFormed ==
  /\ Len(storage.list) <= TopN
  /\ \A i, j \in DOMAIN storage.list :
       i < j => storage.list[i].percentage >= storage.list[j].percentage

\* the eleventh insert: a save into a full leaderboard
C8_Witness ==
  /\ lastEnd # <<>>
  /\ lastEnd[1].saved
  /\ ~lastEnd[1].threw
  /\ Len(lastEnd[1].before.list) = TopN
  /\ storage # lastEnd[1].before

\* the entry the last endQuiz call built
LastEntry ==
  [name |-> "Player", score |-> lastEnd[1].score, total |-> lastEnd[1].total,
   percentage |-> getScorePercentage(FinishedQuiz(lastEnd[1].score, lastEnd[1].total)),
   difficulty |-> "", date |-> lastEnd[1].now]

\* the previous leaderboard followed by the new entry
Pushed == Append(lastEnd[1].before.list, LastEntry)

PositionIn(s, x) == CHOOSE i \in DOMAIN s : s[i] = x

\* x ranks before y: a higher percentage, or the same and pushed earlier
RanksBefore(x, y) ==
  \/ x.percentage > y.percentage
  \/ x.percentage = y.percentage /\ PositionIn(Pushed, x) < PositionIn(Pushed, y)

\* C9: after a save the stored list is the first 10 of the previous list and
\* the new entry in descending order of percentage, equal percentages in the
\* order they were pushed; what is left out ranks behind all that is kept.
C9_SaveStableTopTen ==
  (lastEnd # <<>> /\ lastEnd[1].saved /\ ~lastEnd[1].threw) =>
    /\ storage.kind = "list"
    /\ Len(storage.list) = Min(TopN, Len(Pushed))
    /\ Range(storage.list) \subseteq Range(Pushed)
    /\ \A i, j \in DOMAIN storage.list :
         i < j => RanksBefore(storage.list[i], storage.list[j])
    /\ \A x \in Range(Pushed) \ Range(storage.list) :
         \A y \in Range(storage.list) : RanksBefore(y, x)

\* the eleventh insert, the new entry kept behind an older entry of its percentage
C9_Witness ==
  /\ C8_Witness
  /\ \E i, j \in DOMAIN storage.list :
       /\ i < j
       /\ storage.list[j] = LastEntry
       /\ storage.list[i].percentage = LastEntry.percentage

\* C10: isHighScore is true exactly when the stored leaderboard has fewer
\* than 10 entries or the percentage is above that of its last entry.
C10_IsHighScore ==
  lastEnd # <<>> =>
    LET board == lastEnd[1].before.list
    IN  lastEnd[1].saved <=>
          \/ Len(board) < TopN
          \/ LastEntry.percentage > board[Len(board)].percentage

\* a score of 0 percent qualifies while the leaderboard is not full
C10_Witness ==
  /\ lastEnd # <<>>
  /\ lastEnd[1].saved
  /\ lastEnd[1].score = 0
  /\ Len(lastEnd[1].before.list) < TopN

\* C11: when endQuiz saved the session's entry and returned, the leaderboard
\* it rendered is the stored one read after the save, and the new entry is
\* in it.
C11_SavedBeforeReadBack ==
  (lastEnd # <<>> /\ lastEnd[1].saved /\ ~lastEnd[1].threw) =>
    /\ results # <<>>
    /\ results[1].leaderboard = storage.list
    /\ LastEntry \in Range(results[1].leaderboard)

\* an entry saved into a full leaderboard, another one dropped for it
C11_Witness ==
  /\ lastEnd # <<>>
  /\ lastEnd[1].saved
  /\ ~lastEnd[1].threw
  /\ Len(lastEnd[1].before.list) = TopN
  /\ results # <<>>
  /\ \E i \in 1..TopN : results[1].leaderboard[i] = LastEntry

\* C12: the results card shows the new-record badge exactly when the
\* session's entry qualified and was saved.
C12_NewRecordBadge ==
  (lastEnd # <<>> /\ ~lastEnd[1].threw /\ results # <<>>) =>
    (results[1].newRecord <=> lastEnd[1].saved)

\* C13: a stored value that is absent, unreadable, not JSON or not a list is
\* read as the empty leaderboard: the session's entry qualifies, and once
\* saved it is the only entry stored and shown.
C13_MalformedReadsEmpty ==
  (lastEnd # <<>> /\ lastEnd[1].before.kind # "list") =>
    /\ lastEnd[1].saved
    /\ ~lastEnd[1].threw =>
         /\ storage = StoredList(<<LastEntry>>)
         /\ results # <<>>
         /\ results[1].leaderboard = <<LastEntry>>

\* a finalization over a stored value that is JSON but not a list
C13_Witness ==
  /\ lastEnd # <<>>
  /\ lastEnd[1].before.kind = "nonlist"
  /\ ~lastEnd[1].threw
  /\ storage.kind = "list"
  /\ results # <<>>

\* C14: every finalization, whether or not its write to storage succeeds,
\* ends with the results card showing the session's score and percentage.
C14_WriteFailureSwallowed ==
  lastEnd # <<>> =>
    /\ ~uncaught
    /\ screen = "results"
    /\ results # <<>>
    /\ results[1].score = lastEnd[1].score
    /\ results[1].percentage = LastEntry.percentage

\* what parseInt can give for a count that is missing, or any count from -1
\* to one above the limit
Counts == {NaN} \cup {Number(n) : n \in -1..(MaxAllowed + 1)}

\* C15: validateForm passes exactly the counts 1..50; a step that reports a
\* validation error creates no session, issues no fetch and constructs no
\* round, and a step that starts a session does so with a count in 1..50.
C15_Validation ==
  [][/\ \A v \in Counts : validateForm(v) <=> (~v.nan /\ v.n \in 1..MaxAllowed)
     /\ formErrors' > formErrors =>
          UNCHANGED <<screen, currentQuiz, fetching, quizzes, rounds, card, started>>
     /\ started' # started =>
          /\ quizzes'[started'].numberOfQuestions \in 1..MaxAllowed
          /\ formErrors' = formErrors]_vars

\* a validation error is shown and nothing was started
C15_Witness ==
  /\ formErrors > 0
  /\ screen = "form"
  /\ started = 0
  /\ currentQuiz = 0
  /\ quizzes = EmptyMap

\* the error card is shown because getQuestions failed
FetchFailed == screen = "error" /\ lastFetch \in {"network", "http", "nodata"}

\* after a failed fetch the session is as it was constructed and has no round
NothingLoaded ==
  FetchFailed =>
    /\ currentQuiz \in DOMAIN quizzes
    /\ quizzes[currentQuiz].questions = <<>>
    /\ quizzes[currentQuiz].score = 0
    /\ quizzes[currentQuiz].currentQuestionIndex = 0
    /\ \A rid \in DOMAIN rounds : rounds[rid].sid # currentQuiz
    /\ card = NoCard
    /\ message # ""

\* C16: after a failed fetch the session has no questions, score 0 and index
\* 0, no round exists for it and the error card is shown; the only way on is
\* retry, which shows the form with no current session.
C16_FetchFailure ==
  [][/\ NothingLoaded
     /\ NothingLoaded'
     /\ (FetchFailed /\ screen' # "error") =>
          (screen' = "form" /\ currentQuiz' = 0 /\ card' = NoCard)]_vars

\* the error card after a non-success HTTP status
C16_Witness ==
  /\ FetchFailed
  /\ lastFetch = "http"
  /\ currentQuiz # 0

\* C17: the error card shown when the upstream status code signals that no
\* questions are available does not carry the message shown for a transport
\* or HTTP failure.
C17_DistinctMessage ==
  (screen = "error" /\ lastFetch = "nodata") =>
    message # "Failed to load questions. Try again."

\* C18: every keydown listener on the document belongs to the round on
\* screen, and that round is not resolved.
C18_NoListenerLeak ==
  \A i \in DOMAIN keydown :
    /\ keydown[i].rid = card
    /\ keydown[i].rid \in DOMAIN rounds
    /\ ~rounds[keydown[i].rid].answered

\* C19: at most one countdown is active; it is the one the round on screen
\* holds, that round is unresolved, and no fetch, transition, results card or
\* error card is pending or shown while it runs.
C19_OneCountdown ==
  /\ Cardinality(intervals) <= 1
  /\ \A iv \in intervals :
       /\ iv.rid = card
       /\ iv.rid \in DOMAIN rounds
       /\ rounds[iv.rid].timerInterval = iv.id
       /\ ~rounds[iv.rid].answered
       /\ rounds[iv.rid].timeRemaining > 0
       /\ screen = "question"
       /\ fetching = 0
       /\ timeouts = <<>>

\* the countdown of the first round, displayed twice, after some ticks
C19_Witness ==
  /\ card # NoCard
  /\ rounds[card].index = 0
  /\ rounds[card].displays = 2
  /\ rounds[card].timeRemaining < StartTime
  /\ intervals = {[rid |-> card, id |-> 2]}

\* C20: endQuiz is called at most once in a session, in the step in which the
\* index reaches the number of questions and in no other; a save happens
\* only in such a step, and at most one.
C20_FinalizedOnce ==
  [][/\ ends <= 1 /\ ends' <= 1
     /\ ends' > ends =>
          /\ currentQuiz' = currentQuiz
          /\ currentQuiz \in DOMAIN quizzes \cap DOMAIN quizzes'
          /\ quizzes'[currentQuiz].currentQuestionIndex = Len(quizzes'[currentQuiz].questions)
          /\ quizzes[currentQuiz].currentQuestionIndex = Len(quizzes[currentQuiz].questions) - 1
     /\ ( /\ currentQuiz' = currentQuiz
          /\ currentQuiz \in DOMAIN quizzes \cap DOMAIN quizzes'
          /\ quizzes[currentQuiz].currentQuestionIndex < Len(quizzes[currentQuiz].questions)
          /\ quizzes'[currentQuiz].currentQuestionIndex >= Len(quizzes'[currentQuiz].questions) ) =>
          ends' = ends + 1
     /\ clock' \in {clock, clock + 1}
     /\ clock' > clock => ends' > ends]_vars

\* a session of MaxLen questions finalized, its entry saved
C20_Witness ==
  /\ ends = 1
  /\ screen = "results"
  /\ lastEnd # <<>>
  /\ lastEnd[1].saved
  /\ quizzes[currentQuiz].currentQuestionIndex = MaxLen

\* the position of key among the digits 1..4, 0 for any other key
DigitOf(key) ==
  IF key \in Range(Digits) THEN CHOOSE n \in DOMAIN Digits : Digits[n] = key ELSE 0

\* the buttons of round rid in world w that carry a selection mark
SelectedIn(w, rid) ==
  {b \in DOMAIN w.rounds[rid].answerButtons :
     w.rounds[rid].answerButtons[b].classes \cap {"correct", "wrong"} # {}}

\* C21: while the round on screen is unresolved, a keydown event with key k
\* in 1..4 does what a click on the k-th choice in display order does, and
\* marks that choice and no other; with fewer than k choices, or any other
\* key, the event changes nothing.
C21_KeyIsChoice ==
  (card # NoCard /\ ~rounds[card].answered) =>
    \A key \in Range(Digits) \cup {"x"} :
      LET after == Dispatch(World, keydown, key)
      IN  IF DigitOf(key) \in DOMAIN rounds[card].allAnswers
          THEN /\ after = checkAnswer(World, card, DigitOf(key))
               /\ after.rounds[card].answered
               /\ SelectedIn(after, card) = {DigitOf(key)}
          ELSE after = World

\* a running round of three choices: key 3 selects the third, key 4 nothing
C21_Witness ==
  /\ card # NoCard
  /\ ~rounds[card].answered
  /\ rounds[card].timeRemaining < StartTime
  /\ Len(rounds[card].allAnswers) = 3
  /\ SelectedIn(Dispatch(World, keydown, "3"), card) = {3}
  /\ Dispatch(World, keydown, "4") = World

\* how often x occurs in the sequence s
Count(s, x) == Cardinality({i \in DOMAIN s : s[i] = x})

\* s and u hold the same elements, each as often
SameMultiset(s, u) ==
  /\ Len(s) = Len(u)
  /\ \A x \in Range(s) \cup Range(u) : Count(s, x) = Count(u, x)

\* the decoded choices of question data: the distractors and the correct answer
ChoicesOf(questionData) ==
  Append([i \in DOMAIN questionData.incorrect_answers |->
            decodeHtml(questionData.incorrect_answers[i])],
         decodeHtml(questionData.correct_answer))

\* C22: whatever the random draws, the shuffled choices of a round are the
\* correct answer and the distractors of its question, each as often as the
\* question has it, and no step changes them once the round exists.
C22_ShufflePermutation ==
  [][/\ \A rid \in DOMAIN rounds' :
          rid[1] \in DOMAIN quizzes' =>
            SameMultiset(rounds'[rid].allAnswers,
                         ChoicesOf(quizzes'[rid[1]].questions[rid[2] + 1]))
     /\ \A rid \in DOMAIN rounds \cap DOMAIN rounds' :
          rounds'[rid].allAnswers = rounds[rid].allAnswers]_vars

\* a resolved round whose shuffle moved the correct answer between the two
\* copies of a distractor
C22_Witness ==
  /\ card # NoCard
  /\ rounds[card].answered
  /\ rounds[card].allAnswers = << <<"b">>, <<"A">>, <<"b">> >>

\* C23: in every state of a session, also between the resolution of a round
\* and the advance that follows it, the score is at most the index.
C23_ScoreAtMostIndexAlways ==
  \A sid \in DOMAIN quizzes :
    quizzes[sid].score <= quizzes[sid].currentQuestionIndex

\* C24: a resolved round has no countdown, from the very step that resolved
\* it; and while its card stays on screen no step changes its remaining time,
\* its answered flag, the outcomes recorded or the score of its session.
C24_AnsweredStopsClock ==
  [][\A rid \in DOMAIN rounds \cap DOMAIN rounds' :
       /\ rounds'[rid].answered => \A iv \in intervals' : iv.rid # rid
       /\ (rounds[rid].answered /\ card' = rid) =>
            /\ rounds'[rid].answered
            /\ rounds'[rid].timeRemaining = rounds[rid].timeRemaining
            /\ outcomes' = outcomes
            /\ rid[1] \in DOMAIN quizzes \cap DOMAIN quizzes'
            /\ quizzes'[rid[1]].score = quizzes[rid[1]].score]_vars

\* a round resolved by a selection part of the way through its countdown, the
\* transition still pending
C24_Witness ==
  /\ card # NoCard
  /\ rounds[card].answered
  /\ Selected # {}
  /\ rounds[card].timeRemaining \in 1..(StartTime - 1)
  /\ intervals = {}
  /\ card \in Range(timeouts)

\* the round of the current session that the last recorded outcome resolved
LastResolved == <<currentQuiz, outcomes[Len(outcomes)].index>>

RoundAt(sid) == <<sid, quizzes[sid].currentQuestionIndex>>

\* C26: the index of a session changes only by 1, in the step that runs the
\* one pending transition of the round at that index, a round that is
\* resolved; no round has two transitions pending, none has one after its
\* session moved on, and the index stands still while the round on screen
\* is unresolved.
C26_AdvanceAfterResolve ==
  [][/\ \A i, j \in DOMAIN timeouts : timeouts[i] = timeouts[j] => i = j
     /\ \A i \in DOMAIN timeouts :
          /\ timeouts[i] \in DOMAIN rounds
          /\ rounds[timeouts[i]].answered
          /\ timeouts[i][1] \in DOMAIN quizzes
          /\ timeouts[i] = RoundAt(timeouts[i][1])
     /\ \A sid \in DOMAIN quizzes \cap DOMAIN quizzes' :
          quizzes'[sid].currentQuestionIndex # quizzes[sid].currentQuestionIndex =>
            /\ quizzes'[sid].currentQuestionIndex = quizzes[sid].currentQuestionIndex + 1
            /\ RoundAt(sid) \in DOMAIN rounds
            /\ rounds[RoundAt(sid)].answered
            /\ timeouts # <<>>
            /\ Head(timeouts) = RoundAt(sid)
            /\ RoundAt(sid) \notin Range(timeouts')
     /\ (card # NoCard /\ ~rounds[card].answered) =>
          /\ card[1] \in DOMAIN quizzes \cap DOMAIN quizzes'
          /\ quizzes'[card[1]].currentQuestionIndex = quizzes[card[1]].currentQuestionIndex]_vars

\* the second round is running after the first timed out and advanced
C26_Witness ==
  /\ currentQuiz # 0
  /\ card = <<currentQuiz, 1>>
  /\ quizzes[currentQuiz].currentQuestionIndex = 1
  /\ ~rounds[card].answered
  /\ outcomes = <<[index |-> 0, outcome |-> "TimedOut"]>>
  /\ timeouts = <<>>

\* the entries now stored that the last endQuiz call wrote
Written == {e \in Range(storage.list) : e.date = lastEnd[1].now}

\* the upstream gave the current session no more questions than it asked for
WithinCount ==
  /\ currentQuiz \in DOMAIN quizzes
  /\ Len(quizzes[currentQuiz].questions) <= quizzes[currentQuiz].numberOfQuestions

\* C27: the entry a session saved, the upstream having returned no more
\* questions than were asked for, is stored with a score between 0 and its
\* total and a percentage between 0 and 100.
C27_EntryInRange ==
  (lastEnd # <<>> /\ lastEnd[1].saved /\ ~lastEnd[1].threw /\ WithinCount) =>
    /\ Written # {}
    /\ \A e \in Written :
         /\ 0 <= e.score /\ e.score <= e.total
         /\ 0 <= e.percentage /\ e.percentage <= 100

\* a session of MaxCount questions, all answered correctly, saved into the
\* full leaderboard
C27_Witness ==
  /\ lastEnd # <<>>
  /\ lastEnd[1].saved
  /\ ~lastEnd[1].threw
  /\ WithinCount
  /\ Len(lastEnd[1].before.list) = TopN
  /\ \E e \in Written : e.score = MaxCount /\ e.total = MaxCount /\ e.percentage = 100

\* C28: a round exists only for a session whose fetch resolved with
\* questions, at an index below their number, and holds the question at that
\* index; a round appears only at the index its session is at; for an index
\* out of range getCurrentQuestion gives none, and no exception comes of
\* reading a question.
C28_RoundHasQuestion ==
  [][/\ \A rid \in DOMAIN rounds' :
          /\ rid[1] = currentQuiz' => (lastFetch' = "ok" /\ fetching' # rid[1])
          /\ rid[1] \in DOMAIN quizzes' =>
               /\ quizzes'[rid[1]].questions # <<>>
               /\ rid[2] + 1 \in DOMAIN quizzes'[rid[1]].questions
               /\ rounds'[rid].correctAnswer
                    = decodeHtml(quizzes'[rid[1]].questions[rid[2] + 1].correct_answer)
          /\ rid \notin DOMAIN rounds =>
               /\ rid[1] \in DOMAIN quizzes'
               /\ rid[2] = quizzes'[rid[1]].currentQuestionIndex
               /\ getCurrentQuestion(quizzes'[rid[1]]) # NoQuestion
     /\ \A sid \in DOMAIN quizzes' :
          quizzes'[sid].currentQuestionIndex >= Len(quizzes'[sid].questions) =>
            getCurrentQuestion(quizzes'[sid]) = NoQuestion
     /\ uncaught' => (lastEnd' # <<>> /\ lastEnd'[1].threw)]_vars

\* the second round of a session of two questions is on screen
C28_Witness ==
  /\ currentQuiz # 0
  /\ card = <<currentQuiz, 1>>
  /\ Len(quizzes[currentQuiz].questions) = 2
  /\ lastFetch = "ok"
  /\ rounds[card].correctAnswer = decodeHtml(quizzes[currentQuiz].questions[2].correct_answer)

\* a session whose fetch gave questions is showing one of them
Playing == lastFetch = "ok" /\ screen = "question" /\ currentQuiz # 0

\* C29: with the timers delivered, a session that is showing a question
\* comes to the results card, whatever the player does or does not do.
C29_ReachesResults == Playing ~> (screen = "results")

\* with the timers delivered, a session that is showing a question comes to
\* the results card unless an exception escaped a callback
ReachesResultsOrThrows == Playing ~> (screen = "results" \/ uncaught)

\* the rounds of the current session that are not resolved
Unresolved == {rid \in DOMAIN rounds : rid[1] = currentQuiz /\ ~rounds[rid].answered}

\* C30: the rounds of a session are resolved in the order of their indices
\* 0, 1, 2, ..., each once and as Correct, Wrong or TimedOut; a round appears
\* only for the index that follows the last resolved one, at most one round
\* is unresolved and it is the one on screen, no resolved round is opened
\* again, and a session is finalized with as many rounds resolved as it has
\* questions.
C30_OneRoundPerQuestion ==
  [][/\ \A k \in DOMAIN outcomes' :
          /\ outcomes'[k].index = k - 1
          /\ outcomes'[k].outcome \in {"Correct", "Wrong", "TimedOut"}
     /\ \A rid \in DOMAIN rounds' :
          /\ (rid \notin DOMAIN rounds /\ rid[1] = currentQuiz') =>
               /\ rid[2] = Len(outcomes')
               /\ rid[2] < Len(quizzes'[currentQuiz'].questions)
               /\ card' = rid
          /\ (rid \in DOMAIN rounds /\ rounds[rid].answered) => rounds'[rid].answered
     /\ currentQuiz' # 0 =>
          /\ Cardinality(Unresolved') <= 1
          /\ Unresolved' \subseteq {card'}
          /\ Len(outcomes') + Cardinality(Unresolved')
               <= Len(quizzes'[currentQuiz'].questions)
     /\ ends' > ends => Len(outcomes') = Len(quizzes'[currentQuiz'].questions)]_vars

\* a session of two questions finalized: one round answered wrongly, the
\* next timed out
C30_Witness ==
  /\ screen = "results"
  /\ ends = 1
  /\ currentQuiz # 0
  /\ Len(quizzes[currentQuiz].questions) = 2
  /\ outcomes = <<[index |-> 0, outcome |-> "Wrong"], [index |-> 1, outcome |-> "TimedOut"]>>

\* the last endQuiz call found a leaderboard of 10 entries and a session
\* that does not beat the last of them
AtOrBelowLowest ==
  /\ lastEnd # <<>>
  /\ lastEnd[1].before.kind = "list"
  /\ Len(lastEnd[1].before.list) = TopN
  /\ LastEntry.percentage <= lastEnd[1].before.list[TopN].percentage

\* C31: a session that ends at or below the percentage of the last of 10
\* stored entries, a tie included, is not saved: nothing is written, nothing
\* thrown, and the stored leaderboard is the one found.
C31_NoSaveAtOrBelowLowest ==
  AtOrBelowLowest =>
    /\ ~lastEnd[1].saved
    /\ ~lastEnd[1].threw
    /\ storage = lastEnd[1].before
    /\ results # <<>>
    /\ results[1].leaderboard = lastEnd[1].before.list

\* a session that ties with the last of 10 entries, above 0 percent
C31_Witness ==
  /\ AtOrBelowLowest
  /\ LastEntry.percentage = lastEnd[1].before.list[TopN].percentage
  /\ LastEntry.percentage > 0
  /\ ~lastEnd[1].saved
  /\ storage = lastEnd[1].before

\* a keydown listener of a round of the current session
OwnListener(l) == l.rid[1] = currentQuiz

\* C32: a session starts with score 0, index 0 and no round; while it is the
\* current session every countdown, every pending transition and the card on
\* screen belong to its rounds, and a keydown listener left by an earlier
\* session changes nothing: an event does what it would do with only the
\* current session's listeners attached.
C32_RestartIsolated ==
  [][/\ started' # started =>
          /\ currentQuiz' = started'
          /\ quizzes'[currentQuiz'] = NewQuiz("Player", "", quizzes'[currentQuiz'].numberOfQuestions)
          /\ outcomes' = <<>>
          /\ \A rid \in DOMAIN rounds' : rid[1] # currentQuiz'
     /\ currentQuiz # 0 =>
          /\ \A iv \in intervals : iv.rid[1] = currentQuiz
          /\ \A i \in DOMAIN timeouts : timeouts[i][1] = currentQuiz
          /\ card # NoCard => card[1] = currentQuiz
          /\ \A key \in Range(Digits) \cup {"x"} :
               /\ \A i \in DOMAIN keydown :
                    ~OwnListener(keydown[i]) => keyHandler(World, keydown[i].rid, key) = World
               /\ Dispatch(World, keydown, key)
                    = Dispatch(World, SelectSeq(keydown, OwnListener), key)]_vars

\* the second session has scored on its own question while a listener of the
\* first session's round is still on the document
C32_Witness ==
  /\ currentQuiz = 2
  /\ card = <<2, 0>>
  /\ quizzes[2].score = 1
  /\ quizzes[2].currentQuestionIndex = 0
  /\ \E i \in DOMAIN keydown : keydown[i].rid = <<1, 0>>
  /\ rounds[<<1, 0>>].answered

====
